---- MODULE Spec2Model ----
(***************************************************************************)
(* A model of tinypng-enhanced: the KeyManager (key-manager.mjs), the      *)
(* error classification (utils/error.mjs), the compression workflow        *)
(* (workflows/compression.mjs) and TinyPNGCompressor.compress              *)
(* (tinypng.mjs).                                                          *)
(*                                                                         *)
(* SpecPool drives the KeyManager through its public methods.  Spec drives *)
(* one compress() call, on a pool in which the caller may have marked keys *)
(* as failed, against a server that may answer every request with success, *)
(* an HTTP error or a transport failure; SpecLive is Spec with every       *)
(* awaited request and delay settling eventually.                          *)
(* SpecConc drives the two compress() calls that                           *)
(* processFilesWithConcurrency keeps in flight on its shared compressor,   *)
(* interleaved at their awaits.  SpecFile drives one local file through    *)
(* processSingleConvert (bin/lib/processors.mjs): compress(), then the     *)
(* second upload and the convert request, with files and bodies of         *)
(* several lengths.  SpecBatch drives compressCommand's batch: the queue of *)
(* processFilesWithConcurrency, its files run through processSingleFile,   *)
(* and their progress bars.                                                *)
(***************************************************************************)
EXTENDS Integers, Sequences, FiniteSets, TLC

\* ------------------------------------------------------------------ bounds
\* Number of API keys handed to the constructor (options.apiKeys.length).
NumKeys == 2
\* options.monthlyLimit, scaled down from the default of 500.
MonthlyLimit == 2
\* Largest usage count the server reports: one past the limit.
MaxCount == MonthlyLimit + 1

Keys == 0 .. (NumKeys - 1)

\* ------------------------------------------------------------ JS values
\* A compression count is null, a number, or NaN (typeof NaN === 'number',
\* what parseInt gives for a malformed header).
Null == [tag |-> "null", v |-> 0]
NaN == [tag |-> "nan", v |-> 0]
Num(n) == [tag |-> "number", v |-> n]
Counts == {Num(n) : n \in 0 .. MaxCount}
CountValues == Counts \cup {Null, NaN}

\* typeof c === 'number'
IsNumberMut(c) == c.tag \in {"number", "nan", "null"}
IsNumber(c) == c.tag \in {"number", "nan"}
\* c === null
IsNull(c) == c.tag = "null"

\* Infinity, as used for the remaining quota of a key of unknown usage.
Infinity == [tag |-> "inf", v |-> 0]

\* a < b on JS numbers: every comparison with NaN is false.
JsLt(a, b) ==
  /\ a.tag # "nan" /\ b.tag # "nan"
  /\ \/ a.tag = "number" /\ b.tag = "inf"
     \/ a.tag = "number" /\ b.tag = "number" /\ a.v < b.v
\* a > b
JsGt(a, b) == JsLt(b, a)
\* a >= b on JS numbers
JsGeMut(a, b) == JsLt(b, a)
JsGe(a, b) ==
  /\ a.tag # "nan" /\ b.tag # "nan"
  /\ \/ a.tag = "inf"
     \/ a.tag = "number" /\ b.tag = "number" /\ a.v >= b.v
\* a - b on JS numbers
JsMinus(a, b) ==
  IF a.tag = "nan" \/ b.tag = "nan" THEN NaN ELSE Num(a.v - b.v)

\* ------------------------------------------------------------- errors
\* An Error object: its HTTP status (0 when it has no status property, which
\* is falsy like undefined), the code of its cause, and what raised it.
NoCode == "none"
MkError(kind, status, code) ==
  [kind |-> kind, status |-> status, code |-> code,
   tries |-> 0, inner |-> "none", innerStatus |-> 0]
NoError == MkError("none", 0, NoCode)
\* request(): the Error thrown for a response that is not ok, carrying its status.
ApiError(s) == MkError("api", s, NoCode)
\* fetch(): the TypeError of a failed transport, cause.code = c.
FetchError(c) == MkError("fetch", 0, c)
\* new Error('所有 API Keys 都已被禁用')
AllDisabledError == MkError("allDisabled", 0, NoCode)
\* new Error('所有 API Keys 都已达到月度限制')
AllAtLimitError == MkError("allAtLimit", 0, NoCode)
\* new Error(`Invalid key index: ${keyIndex}`)
InvalidIndexError == MkError("invalidIndex", 0, NoCode)

\* --------------------------------------------------------------- state
VARIABLES
  keyStats,         \* KeyManager.keyStats: one record per key index
  currentKeyIndex,  \* KeyManager.currentKeyIndex
  lastCall,         \* the last KeyManager method called directly, and its outcome
  errorListener,    \* whether the caller registered a listener for 'error'
  serverCount,      \* the server's own usage counter of each key
  reported,         \* per key, the counts the server sent in Compression-Count headers
  faults,           \* the failures the server, the transport and the sources produce
  bodies,           \* the lengths of the bodies the server sends for a download
  pc,               \* where the compress() call stands
  opts,             \* the source and options of the call
  attempt,          \* the loop variable of the call
  keyStat,          \* the keyStat of the running iteration (NoKey: undefined)
  finalKeyStat,     \* the finalKeyStat handed to finalizeResult
  lastError,        \* the lastError of the call
  resp,             \* the response under way to the call
  delayMs,          \* the delay the call is sleeping through
  selections,       \* 'compressing' events the call has emitted
  lastProgress,     \* the last 'progress' value the call emitted, in percent
  trace,            \* what the running attempt emitted, requested and slept, in order
  result,           \* what the call resolved or rejected with
  optionsConcurrent,\* options.concurrent as the command line gave it
  concurrent,       \* the concurrent argument of processFilesWithConcurrency
  queuePc,          \* where processQueue stands
  queueIndex,       \* the position in queue of the next file to start
  activePromises,   \* processQueue's activePromises: files, in the order pushed
  completedResults, \* processQueue's completedResults, in the order pushed
  results,          \* the results object: success and failed
  fileResult,       \* per file, what its processSingleFile promise stands at
  started,          \* per file, the processSingleFile calls made for it
  fileBar           \* per file, its progress bar and its listener's lastProgress

poolVars == <<keyStats, currentKeyIndex>>
batchVars == <<optionsConcurrent, concurrent, queuePc, queueIndex, activePromises,
               completedResults, results, fileResult, started>>
taskVars == <<errorListener, batchVars, fileBar, serverCount, reported, faults, bodies, pc, opts, attempt,
              keyStat, finalKeyStat, lastError, resp, delayMs, selections, lastProgress,
              trace, result>>

\* One entry of keyStats as the constructor builds it.
FreshStat ==
  [compressionCount |-> Null, lastUpdated |-> 0, lastError |-> NoError, disabled |-> FALSE]

\* KeyManager constructor
FreshKeyStats == [i \in Keys |-> FreshStat]

\* stat.monthlyLimit, the same for every key
monthlyLimit == Num(MonthlyLimit)

\* getTotalKeys()
getTotalKeys == NumKeys

\* ----------------------------------------------------- selectBestKey
\* availableKeys: the indices of the non-disabled keys, in pool order.
AvailableKeysMut(ks) == [i \in 1 .. NumKeys |-> i - 1]
AvailableKeys(ks) == SelectSeq([i \in 1 .. NumKeys |-> i - 1], LAMBDA i : ~ks[i].disabled)

\* The predicate of the second filter: unknown count, or count under the limit.
IsViable(stat) ==
  IF IsNull(stat.compressionCount) THEN TRUE
  ELSE JsLt(stat.compressionCount, monthlyLimit)

ViableKeys(ks) == SelectSeq(AvailableKeys(ks), LAMBDA i : IsViable(ks[i]))

\* remaining quota as the reducer computes it
Remaining(stat) ==
  IF IsNull(stat.compressionCount) THEN Infinity
  ELSE JsMinus(monthlyLimit, stat.compressionCount)

\* The reducer's step: currentRemaining > bestRemaining ? current : best
ReduceStepMut(ks, best, current) ==
  IF JsGe(Remaining(ks[current]), Remaining(ks[best])) THEN current ELSE best
ReduceStep(ks, best, current) ==
  IF JsGt(Remaining(ks[current]), Remaining(ks[best])) THEN current ELSE best

\* viableKeys.reduce(...) without an initial value: a left fold from the head.
RECURSIVE Reduce(_, _, _)
Reduce(ks, best, rest) ==
  IF rest = <<>> THEN best
  ELSE Reduce(ks, ReduceStep(ks, best, Head(rest)), Tail(rest))

\* selectBestKey(): the index returned, or the error thrown.
selectBestKeyMut(ks) ==
  IF SelectSeq([i \in 1 .. NumKeys |-> i - 1], LAMBDA i : IsViable(ks[i])) = <<>>
  THEN [ok |-> FALSE, index |-> 0, error |-> AllAtLimitError]
  ELSE IF AvailableKeys(ks) = <<>>
  THEN [ok |-> FALSE, index |-> 0, error |-> AllDisabledError]
  ELSE IF ViableKeys(ks) = <<>> THEN [ok |-> FALSE, index |-> 0, error |-> AllAtLimitError]
  ELSE [ok |-> TRUE,
        index |-> Reduce(ks, Head(ViableKeys(ks)), Tail(ViableKeys(ks))),
        error |-> NoError]
selectBestKey(ks) ==
  IF AvailableKeys(ks) = <<>> THEN [ok |-> FALSE, index |-> 0, error |-> AllDisabledError]
  ELSE IF ViableKeys(ks) = <<>> THEN [ok |-> FALSE, index |-> 0, error |-> AllAtLimitError]
  ELSE [ok |-> TRUE,
        index |-> Reduce(ks, Head(ViableKeys(ks)), Tail(ViableKeys(ks))),
        error |-> NoError]

\* ------------------------------------------------- updateStats, markKeyError
\* const stat = this.keyStats[keyIndex]; if (!stat) throw ...: whether the pool
\* has an entry at keyIndex.
HasStatMut(ks, keyIndex) == keyIndex >= 0
HasStat(ks, keyIndex) == keyIndex \in DOMAIN ks

\* The body of updateStats for a valid index: the new keyStats.
updateStatsMut(ks, keyIndex, compressionCount, now) ==
  IF IsNumber(compressionCount)
  THEN [ks EXCEPT ![keyIndex] =
          [@ EXCEPT !.compressionCount = compressionCount,
                    !.lastUpdated = now,
                    !.disabled = JsGe(compressionCount, monthlyLimit)]]
  ELSE ks
updateStats(ks, keyIndex, compressionCount, now) ==
  IF IsNumber(compressionCount)
  THEN [ks EXCEPT ![keyIndex] =
          [@ EXCEPT !.compressionCount = compressionCount,
                    !.lastUpdated = now,
                    !.disabled = IF JsGe(compressionCount, monthlyLimit) THEN TRUE ELSE @]]
  ELSE ks

\* The body of markKeyError for a valid index.
markKeyError(ks, keyIndex, error) ==
  [ks EXCEPT ![keyIndex] = [@ EXCEPT !.lastError = error, !.disabled = TRUE]]

\* reset(): the new keyStats (currentKeyIndex is set to 0 by the callers).
resetMut(ks) ==
  [i \in Keys |-> [ks[i] EXCEPT !.compressionCount = Null, !.lastUpdated = 0,
                                !.lastError = NoError]]
reset(ks) ==
  [i \in Keys |-> [ks[i] EXCEPT !.compressionCount = Null, !.disabled = FALSE,
                                !.lastError = NoError, !.lastUpdated = 0]]

\* ------------------------------------------------- getStats, getSummary
\* options.apiKeys, one string per key index, of the pool at hand and of a
\* pool that differs from it in every key string.
apiKeys == [i \in Keys |-> "key-a"]
otherApiKeys == [i \in Keys |-> "key-b"]

\* this.keyStats as the object holds it: the fields that change, and with them
\* the key string, the index and the limit that the constructor stored.
statsOf(ks, keys) ==
  [i \in Keys |->
     [key |-> keys[i], index |-> i, monthlyLimit |-> monthlyLimit,
      compressionCount |-> ks[i].compressionCount, lastUpdated |-> ks[i].lastUpdated,
      lastError |-> ks[i].lastError, disabled |-> ks[i].disabled]]

\* a + b on JS numbers
JsPlus(a, b) ==
  IF a.tag = "nan" \/ b.tag = "nan" THEN NaN ELSE Num(a.v + b.v)
\* Math.max(0, a)
JsMax0Mut(a) == a
JsMax0(a) ==
  IF a.tag = "nan" THEN NaN ELSE IF a.v > 0 THEN a ELSE Num(0)
\* ((a / b) * 100).toFixed(2), as hundredths of a percent, for b > 0
JsPercent(a, b) ==
  IF a.tag = "nan" \/ b.tag = "nan" THEN NaN
  ELSE Num((20000 * a.v + b.v) \div (2 * b.v))

\* The error message shown for a stored error.
messageOf(error) == [kind |-> error.kind, status |-> error.status]
NoMessage == [kind |-> "null", status |-> 0]

\* getStats(): the entry made of one stat.
statViewMut(stat) == stat
statView(stat) ==
  [keyIndex |-> stat.index,
   compressionCount |-> stat.compressionCount,
   monthlyLimit |-> stat.monthlyLimit,
   remaining |-> IF IsNull(stat.compressionCount) THEN Null
                 ELSE JsMinus(stat.monthlyLimit, stat.compressionCount),
   percentUsed |-> IF IsNull(stat.compressionCount) THEN Null
                   ELSE JsPercent(stat.compressionCount, stat.monthlyLimit),
   lastUpdated |-> stat.lastUpdated,
   disabled |-> stat.disabled,
   lastError |-> IF stat.lastError # NoError THEN messageOf(stat.lastError) ELSE NoMessage]

\* getStats()
getStats(stats) == [i \in DOMAIN stats |-> statView(stats[i])]

\* array.reduce((sum, s) => sum + f(s), 0) over the entries of indices seq
RECURSIVE ReduceSum(_, _, _)
ReduceSum(seq, f, sum) ==
  IF seq = <<>> THEN sum
  ELSE ReduceSum(Tail(seq), f, JsPlus(sum, f[Head(seq)]))

\* getSummary()
getSummary(stats) ==
  LET all == [i \in 1 .. Cardinality(DOMAIN stats) |-> i - 1]
      total == Len(all)
      disabled == Len(SelectSeq(all, LAMBDA i : stats[i].disabled))
      active == total - disabled
      unknown == Len(SelectSeq(all, LAMBDA i : IsNull(stats[i].compressionCount)))
      knownStats == SelectSeq(all, LAMBDA i : ~IsNull(stats[i].compressionCount))
      totalUsed == ReduceSum(knownStats, [i \in DOMAIN stats |-> stats[i].compressionCount],
                             Num(0))
      totalLimit == ReduceSum(knownStats, [i \in DOMAIN stats |-> stats[i].monthlyLimit],
                              Num(0))
      totalRemaining ==
        ReduceSum(knownStats,
                  [i \in DOMAIN stats |->
                     JsMax0(JsMinus(stats[i].monthlyLimit, stats[i].compressionCount))],
                  Num(0))
  IN [totalKeys |-> total,
      activeKeys |-> active,
      disabledKeys |-> disabled,
      unknownKeys |-> unknown,
      totalUsed |-> IF Len(knownStats) > 0 THEN totalUsed ELSE Null,
      totalLimit |-> IF Len(knownStats) > 0 THEN totalLimit ELSE Null,
      totalRemaining |-> IF Len(knownStats) > 0 THEN totalRemaining ELSE Null,
      percentUsed |-> IF Len(knownStats) > 0 /\ JsGt(totalLimit, Num(0))
                      THEN JsPercent(totalUsed, totalLimit) ELSE Null]

\* isKeyAvailable(keyIndex)
isKeyAvailableMut(ks, keyIndex) ==
  IF ~HasStat(ks, keyIndex) THEN FALSE
  ELSE IF IsNull(ks[keyIndex].compressionCount) THEN TRUE
  ELSE JsLt(ks[keyIndex].compressionCount, monthlyLimit)
isKeyAvailable(ks, keyIndex) ==
  IF ~HasStat(ks, keyIndex) THEN FALSE
  ELSE IF ks[keyIndex].disabled THEN FALSE
  ELSE IF IsNull(ks[keyIndex].compressionCount) THEN TRUE
  ELSE JsLt(ks[keyIndex].compressionCount, monthlyLimit)

\* getCurrentKey()
getCurrentKey == currentKeyIndex

\* Date.now(): the timestamp updateStats stores (lastUpdated is 0 while null).
DateNow == 1

\* ------------------------------------------------------ utils/error.mjs
\* error.cause?.code === 'ECONNREFUSED' || error.cause?.code === 'ETIMEDOUT'
shouldRetryOnNetworkErrorMut(error) == error.status = 0
shouldRetryOnNetworkError(error) ==
  error.code = "ECONNREFUSED" \/ error.code = "ETIMEDOUT"

isUnauthorizedErrorMut(error) == error.status = 401 \/ error.status = 404
isUnauthorizedError(error) == error.status = 401
isRateLimitError(error) == error.status = 429
isClientErrorMut(error) == error.status >= 400 /\ error.status < 500
isClientError(error) == error.status = 400 \/ error.status = 415
\* error.status >= 500 (false for an error without status)
isServerError(error) == error.status >= 500

getErrorType(error) ==
  IF isUnauthorizedError(error) \/ isRateLimitError(error) THEN "account"
  ELSE IF isClientError(error) THEN "client"
  ELSE IF isServerError(error) THEN "server"
  ELSE "unknown"

shouldMarkKeyErrorMut(error) == error.status >= 400 /\ error.status < 500
shouldMarkKeyError(error) == isUnauthorizedError(error) \/ isRateLimitError(error)

\* 1000 * (attempt + 1)
calculateRetryDelay(att) == 1000 * (att + 1)

\* ------------------------------------------------- compress(): values
\* The compress() calls that may be in flight.
Tasks == {1}

\* keyStat before selectBestKey() returned: undefined.
NoKey == 0 - 1

\* The length of a local source in the runs that do not vary it.
SourceSizes == {2}
\* The length of a downloaded body in the runs that do not vary it.
BodySizes == {1}

\* options.resize given or not; the source a URL or local data, and the length
\* of the buffer sourceToBuffer() makes of local data.
OptionsOf(sizes) == [resize : BOOLEAN, isSourceUrl : BOOLEAN, size : sizes]
Options == OptionsOf(SourceSizes)
NoOpts == [resize |-> FALSE, isSourceUrl |-> FALSE, size |-> 0]

\* A response on its way to the client: ok with the Compression-Count read
\* from its header, or the error request() or fetch() throws for it.
NoResp == [kind |-> "none", count |-> Null, error |-> NoError]
OkResp(c) == [kind |-> "ok", count |-> c, error |-> NoError]
ErrResp(e) == [kind |-> "error", count |-> Null, error |-> e]

\* How the promise returned by compress() settled.
\* A resolved call returns the buffer, here its length.
NoResult == [state |-> "pending", error |-> NoError, size |-> 0]
Resolved(len) == [state |-> "resolved", error |-> NoError, size |-> len]
Rejected(e) == [state |-> "rejected", error |-> e, size |-> 0]

\* An entry of the trace: an event emitted (with its key index and a number),
\* a request sent, or a delay slept.
Ev(ev, key, n) == [ev |-> ev, key |-> key, n |-> n]

\* createSuccessEvent(): the data of the 'success' event.
createSuccessEvent(keyIndex, originalSize, compressedSize, compressionCount) ==
  [ev |-> "success", key |-> keyIndex, n |-> 0,
   originalSize |-> originalSize,
   compressedSize |-> compressedSize,
   savedBytes |-> originalSize - compressedSize,
   compressionCount |-> compressionCount,
   remaining |-> IF IsNull(compressionCount) THEN Null
                 ELSE JsMinus(monthlyLimit, compressionCount)]

\* sourceData.originalSize as prepareSource() sets it: the length of the
\* buffer, and null (here 0, as falsy as null) for a URL.
originalSizeOf(o) == IF o.isSourceUrl THEN 0 ELSE o.size

\* finalizeResult(), with the body read: the 'success' event it emits for a
\* buffer of length len.  finalKeyStat is a reference to the pool's entry,
\* read when the event is built.
finalizeResult(len, o, finalIndex, ks) ==
  LET finalOriginalSize == IF originalSizeOf(o) # 0 THEN originalSizeOf(o) ELSE len
  IN createSuccessEvent(finalIndex, finalOriginalSize, len, ks[finalIndex].compressionCount)

\* sourceToBuffer() rejecting (missing file, unsupported input).
SourceError == MkError("source", 0, NoCode)
\* shrink(): new Error('TinyPNG API 未返回 Location 头')
NoLocationError == MkError("noLocation", 0, NoCode)

\* EventEmitter.emit('error', data) without a listener for 'error' throws
\* ERR_UNHANDLED_ERROR, whose context is the event data (type, keyIndex,
\* error and, when given, status); the thrown error has no status of its own.
UnhandledError(error, status) ==
  [kind |-> "unhandled", status |-> 0, code |-> NoCode,
   tries |-> 0, inner |-> error.kind, innerStatus |-> status]

\* new Error(`压缩失败，已尝试 ${maxRetries} 次: ${lastError?.message}`)
FailedAfterError(n, error) ==
  [kind |-> "failedAfter", status |-> 0, code |-> NoCode,
   tries |-> n, inner |-> error.kind, innerStatus |-> error.status]

\* const maxRetries = this.keyManager.getTotalKeys()
maxRetriesMut == getTotalKeys + 1
maxRetries == getTotalKeys

\* ------------------------------------------ workflows/compression.mjs
\* What a handler does to the pool and the trace, and how it ends: "throw"
\* (thrown is raised at once), "delayThenThrow" or "delayThenContinue" (after
\* delayFn(delay)).
Handled(ks, tr, next, thrown, delay) ==
  [ks |-> ks, tr |-> tr, next |-> next, thrown |-> thrown, delay |-> delay]

handleServiceError(ks, tr, error, keyIndex, att, listener) ==
  LET mark == shouldMarkKeyError(error)
      ks1 == IF mark THEN markKeyError(ks, keyIndex, error) ELSE ks
      tr1 == IF mark THEN Append(tr, Ev("keyError", keyIndex, error.status)) ELSE tr
      tr2 == Append(tr1, Ev("error", keyIndex, error.status))
  IN IF ~listener
     THEN Handled(ks1, tr1, "throw", UnhandledError(error, error.status), 0)
     ELSE IF isServerError(error) /\ att < maxRetries - 1
     THEN Handled(ks1, Append(tr2, Ev("delay", keyIndex, calculateRetryDelay(att))),
                  "delayThenThrow", error, calculateRetryDelay(att))
     ELSE Handled(ks1, tr2, "throw", error, 0)

handleNetworkError(ks, tr, error, att, keyIndex, listener) ==
  LET tr1 == Append(tr, Ev("error", keyIndex, 0))
  IN IF ~listener
     THEN Handled(ks, tr, "throw", UnhandledError(error, 0), 0)
     ELSE IF shouldRetryOnNetworkError(error) /\ att < maxRetries - 1
     THEN Handled(ks, Append(tr1, Ev("delay", keyIndex, calculateRetryDelay(att))),
                  "delayThenContinue", error, calculateRetryDelay(att))
     ELSE Handled(ks, tr1, "throw", error, 0)

\* updateQuota(result, keyStat, keyManager, emitFn): the new keyStats and trace.
updateQuotaMut(ks, tr, count, keyIndex, now) ==
  IF ~IsNull(count)
  THEN [ks |-> updateStats(ks, currentKeyIndex, count, now),
        tr |-> Append(tr, Ev("quotaUpdate", keyIndex, count.v))]
  ELSE [ks |-> ks, tr |-> tr]
updateQuota(ks, tr, count, keyIndex, now) ==
  IF ~IsNull(count)
  THEN [ks |-> updateStats(ks, keyIndex, count, now),
        tr |-> Append(tr, Ev("quotaUpdate", keyIndex, count.v))]
  ELSE [ks |-> ks, tr |-> tr]

\* ------------------------------------------------------------------------
\* SpecPool: the KeyManager driven through its public methods.

\* The errors handed to markKeyError.
KeyErrors == {ApiError(401)}

\* The indices callers pass: every valid one and one on each side.
IndexInputs == (0 - 1) .. NumKeys

\* A call without a keyIndex argument.
NoArg == NumKeys + 1

\* A call of a KeyManager method: its keyIndex argument, whether it returned,
\* the index it returned and the error it threw.
CallAt(op, arg, ok, ret, error) ==
  [op |-> op, arg |-> arg, ok |-> ok, ret |-> ret, error |-> error.kind]
Call(op, ok, ret, error) == CallAt(op, NoArg, ok, ret, error)

\* A file's progress bar before multiBar.create, with no listener registered
\* for its file.
NoBar == [registered |-> FALSE, lastProgress |-> 0, value |-> 0]

\* The 'progress' listener of processSingleFile, for one event: progress is
\* Math.round(data.progress * 100).
progressListener(bar, progress) ==
  IF bar.registered /\ progress # bar.lastProgress
  THEN [bar EXCEPT !.lastProgress = progress, !.value = progress]
  ELSE bar

\* emit('progress', ...) on the compressor, once per element of ps: every
\* listener registered on it is called, in turn.
RECURSIVE emitProgress(_, _)
emitProgress(bars, ps) ==
  IF ps = << >> THEN bars
  ELSE emitProgress([f \in DOMAIN bars |-> progressListener(bars[f], Head(ps))], Tail(ps))

\* None of the compress() calls of T has been made, and no batch is running.
IdleTasks(T) ==
  /\ pc = [t \in T |-> "idle"]
  /\ attempt = [t \in T |-> 0]
  /\ keyStat = [t \in T |-> NoKey]
  /\ finalKeyStat = [t \in T |-> NoKey]
  /\ lastError = [t \in T |-> NoError]
  /\ resp = [t \in T |-> NoResp]
  /\ delayMs = [t \in T |-> 0]
  /\ selections = [t \in T |-> 0]
  /\ lastProgress = [t \in T |-> 0]
  /\ trace = [t \in T |-> <<>>]
  /\ result = [t \in T |-> NoResult]
  /\ queuePc = "idle"
  /\ queueIndex = 1
  /\ activePromises = << >>
  /\ completedResults = << >>
  /\ results = [success |-> 0, failed |-> 0]
  /\ fileResult = [t \in T |-> "none"]
  /\ started = [t \in T |-> 0]
  /\ fileBar = [t \in T |-> NoBar]

\* No compress() call has been made.
TasksIdle == IdleTasks(Tasks)

\* processFilesWithConcurrency is not called.
NoBatch ==
  /\ optionsConcurrent = Null
  /\ concurrent = 0

PoolInit ==
  /\ keyStats = FreshKeyStats
  /\ currentKeyIndex = 0
  /\ lastCall = Call("new", TRUE, 0, NoError)
  /\ errorListener = FALSE
  /\ serverCount = [k \in Keys |-> 0]
  /\ reported = [k \in Keys |-> {}]
  /\ faults = {}
  /\ bodies = {}
  /\ opts = [t \in Tasks |-> NoOpts]
  /\ TasksIdle
  /\ NoBatch

PoolSelectBestKeyMut ==
  LET r == selectBestKey(keyStats) IN
  /\ currentKeyIndex' = r.index
  /\ lastCall' = Call("selectBestKey", r.ok, r.index, r.error)
  /\ UNCHANGED <<keyStats, taskVars>>
PoolSelectBestKey ==
  LET r == selectBestKey(keyStats) IN
  /\ currentKeyIndex' = IF r.ok THEN r.index ELSE currentKeyIndex
  /\ lastCall' = Call("selectBestKey", r.ok, r.index, r.error)
  /\ UNCHANGED <<keyStats, taskVars>>

PoolUpdateStats ==
  \E i \in IndexInputs, c \in CountValues :
    IF HasStat(keyStats, i)
    THEN /\ keyStats' = updateStats(keyStats, i, c, DateNow)
         /\ lastCall' = CallAt("updateStats", i, TRUE, 0, NoError)
         /\ UNCHANGED <<currentKeyIndex, taskVars>>
    ELSE /\ lastCall' = CallAt("updateStats", i, FALSE, 0, InvalidIndexError)
         /\ UNCHANGED <<poolVars, taskVars>>

PoolMarkKeyError ==
  \E i \in IndexInputs, e \in KeyErrors :
    IF HasStat(keyStats, i)
    THEN /\ keyStats' = markKeyError(keyStats, i, e)
         /\ lastCall' = CallAt("markKeyError", i, TRUE, 0, NoError)
         /\ UNCHANGED <<currentKeyIndex, taskVars>>
    ELSE /\ lastCall' = CallAt("markKeyError", i, FALSE, 0, InvalidIndexError)
         /\ UNCHANGED <<poolVars, taskVars>>

PoolResetMut ==
  /\ keyStats' = reset(keyStats)
  /\ lastCall' = Call("reset", TRUE, 0, NoError)
  /\ UNCHANGED <<currentKeyIndex, taskVars>>
PoolReset ==
  /\ keyStats' = reset(keyStats)
  /\ currentKeyIndex' = 0
  /\ lastCall' = Call("reset", TRUE, 0, NoError)
  /\ UNCHANGED taskVars

PoolNext ==
  \/ PoolSelectBestKey
  \/ PoolUpdateStats
  \/ PoolMarkKeyError
  \/ PoolReset

vars == <<keyStats, currentKeyIndex, lastCall, errorListener, batchVars, fileBar,
          serverCount, reported,
          faults, bodies, pc,
          opts, attempt, keyStat, finalKeyStat, lastError, resp, delayMs, selections,
          lastProgress, trace, result>>

SpecPool == PoolInit /\ [][PoolNext]_vars

\* ------------------------------------------------------------------------
\* Claims about the KeyManager (SpecPool)

\* Eligible: enabled, with a usage count that is unknown or under the limit.
Eligible(i) ==
  /\ ~keyStats[i].disabled
  /\ \/ keyStats[i].compressionCount = Null
     \/ /\ keyStats[i].compressionCount.tag = "number"
        /\ keyStats[i].compressionCount.v < MonthlyLimit

\* C1: whatever calls came before, a successful selectBestKey() returns a key
\* that is not disabled and whose usage count is unknown or strictly below
\* monthlyLimit.
C1_SelectReturnsUsableKey ==
  (lastCall.op = "selectBestKey" /\ lastCall.ok) =>
    /\ ~keyStats[lastCall.ret].disabled
    /\ \/ keyStats[lastCall.ret].compressionCount = Null
       \/ /\ keyStats[lastCall.ret].compressionCount.tag = "number"
          /\ keyStats[lastCall.ret].compressionCount.v < MonthlyLimit

\* C1 witness: selectBestKey() succeeded in a pool holding a disabled key and a
\* key at its limit.
C1_Witness ==
  /\ lastCall.op = "selectBestKey" /\ lastCall.ok
  /\ \E i \in Keys : keyStats[i].disabled
  /\ keyStats[lastCall.ret].compressionCount # Null

\* The remaining quota the claim speaks of: unknown usage counts as more than
\* any number (MonthlyLimit + 1 exceeds every finite remainder).
ClaimRemaining(i) ==
  IF keyStats[i].compressionCount = Null THEN MonthlyLimit + 1
  ELSE MonthlyLimit - keyStats[i].compressionCount.v

\* C2: a successful selectBestKey() returns the lowest-index key among the
\* eligible keys of greatest remaining quota, unknown usage counting as
\* infinite; on a fresh pool that is index 0.
C2_SelectReturnsLeastUsed ==
  (lastCall.op = "selectBestKey" /\ lastCall.ok) =>
    /\ Eligible(lastCall.ret)
    /\ \A j \in Keys : Eligible(j) =>
         /\ ClaimRemaining(j) <= ClaimRemaining(lastCall.ret)
         /\ (ClaimRemaining(j) = ClaimRemaining(lastCall.ret)) => lastCall.ret <= j
    /\ (keyStats = FreshKeyStats) => lastCall.ret = 0

\* C2 witness: every key has a known count, the one returned is not index 0
\* and has strictly more quota left than key 0, which is eligible too.
C2_Witness ==
  /\ lastCall.op = "selectBestKey" /\ lastCall.ok
  /\ \A j \in Keys : keyStats[j].compressionCount.tag = "number"
  /\ lastCall.ret # 0
  /\ Eligible(0)
  /\ ClaimRemaining(0) < ClaimRemaining(lastCall.ret)

\* C14: in every reachable pool state, a key whose known (integer) usage count
\* is at or above monthlyLimit is disabled; every enabled key has an unknown
\* count or one strictly below the limit.
C14_AtLimitMeansDisabled ==
  \A i \in Keys :
    (keyStats[i].compressionCount.tag = "number"
       /\ keyStats[i].compressionCount.v >= MonthlyLimit) => keyStats[i].disabled

\* C14 witness: updateStats has just recorded a count equal to the limit for a
\* key that no error was ever marked on, while another key is enabled with a
\* count below the limit.
C14_Witness ==
  /\ lastCall.op = "updateStats" /\ lastCall.ok
  /\ keyStats[lastCall.arg].compressionCount = Num(MonthlyLimit)
  /\ keyStats[lastCall.arg].lastError = NoError
  /\ keyStats[lastCall.arg].disabled
  /\ \E j \in Keys : ~keyStats[j].disabled /\ keyStats[j].compressionCount = Num(MonthlyLimit - 1)

\* C15: once a key is disabled, by updateStats with a count at or above the
\* limit or by markKeyError, it stays disabled through every later updateStats
\* (a lower count or null included), markKeyError and selectBestKey call; only
\* reset() enables it again.
C15_DisabledUntilReset ==
  [][\A i \in Keys :
       /\ (keyStats[i].disabled /\ lastCall'.op # "reset") => keyStats'[i].disabled
       /\ (lastCall'.op = "reset") => ~keyStats'[i].disabled]_vars

\* C15 witness: a key that updateStats disabled at the limit (no error was
\* marked on it) has since been given a count of 0 by updateStats and is still
\* disabled.
C15_Witness ==
  /\ lastCall.op = "updateStats" /\ lastCall.ok
  /\ keyStats[lastCall.arg].disabled
  /\ keyStats[lastCall.arg].lastError = NoError
  /\ keyStats[lastCall.arg].compressionCount = Num(0)

\* C16: selectBestKey() throws the all-keys-disabled error exactly when every
\* key is disabled, and then returns no key; this is the error thrown also when
\* every key reached its limit through updateStats, not the at-limit error.
C16_AllDisabledError ==
  (lastCall.op = "selectBestKey") =>
    /\ (lastCall.error = "allDisabled") <=> (\A i \in Keys : keyStats[i].disabled)
    /\ (lastCall.error = "allDisabled") => ~lastCall.ok
    /\ (\A i \in Keys : /\ keyStats[i].compressionCount.tag = "number"
                         /\ keyStats[i].compressionCount.v >= MonthlyLimit) =>
         (~lastCall.ok /\ lastCall.error = "allDisabled")

\* C16 witness: selectBestKey() threw the all-keys-disabled error in a pool
\* whose keys all reached the limit through updateStats, no error marked.
C16_Witness ==
  /\ lastCall.op = "selectBestKey" /\ ~lastCall.ok
  /\ lastCall.error = "allDisabled"
  /\ \A i \in Keys : /\ keyStats[i].lastError = NoError
                      /\ keyStats[i].compressionCount.tag = "number"
                      /\ keyStats[i].compressionCount.v >= MonthlyLimit

\* C18: reset() leaves the pool as the constructor builds it (every count
\* unknown, every key enabled, lastError and lastUpdated cleared, current
\* pointer 0) whatever the state before, and a second reset() changes nothing.
C18_ResetRestoresFreshPool ==
  [][(lastCall'.op = "reset") =>
       /\ keyStats' = FreshKeyStats
       /\ currentKeyIndex' = 0
       /\ reset(keyStats') = keyStats'
       /\ reset(reset(keyStats)) = reset(keyStats)]_vars

\* C18 witness: reset() has just run (the pool is fresh and the pointer is 0).
C18_Witness ==
  /\ lastCall.op = "reset"
  /\ keyStats = FreshKeyStats
  /\ currentKeyIndex = 0

\* C19: updateStats(i, null) is a no-op on every reachable pool: no count,
\* disabled flag or lastUpdated of any key changes (the current pointer is not
\* touched by updateStats), so a known count is never reset by it.
C19_NullUpdateIsNoOp ==
  \A i \in Keys : updateStats(keyStats, i, Null, DateNow) = keyStats

\* C19 witness: updateStats returned on a key whose count is known and below
\* the limit, and a null update of that key would leave that count.
C19_Witness ==
  /\ lastCall.op = "updateStats" /\ lastCall.ok
  /\ keyStats[lastCall.arg].compressionCount = Num(MonthlyLimit - 1)
  /\ updateStats(keyStats, lastCall.arg, Null, DateNow)[lastCall.arg].compressionCount
       = Num(MonthlyLimit - 1)

\* C20: updateStats and markKeyError called with an index outside 0..N-1 throw
\* the 'Invalid key index' error and leave the whole pool (counts, disabled
\* flags, errors, current pointer) as it was.
C20_InvalidIndexRejected ==
  [][(lastCall'.op \in {"updateStats", "markKeyError"} /\ lastCall'.arg \notin Keys) =>
       /\ ~lastCall'.ok
       /\ lastCall'.error = "invalidIndex"
       /\ UNCHANGED poolVars]_vars

\* C20 witness: markKeyError threw for the index one past the last key, in a
\* pool with a disabled key and a known count.
C20_Witness ==
  /\ lastCall.op = "markKeyError" /\ ~lastCall.ok
  /\ lastCall.arg = NumKeys
  /\ lastCall.error = "invalidIndex"
  /\ \E i \in Keys : keyStats[i].disabled
  /\ \E i \in Keys : keyStats[i].compressionCount.tag = "number"

\* C27: getStats() and getSummary() never reveal a key string: pools that
\* differ only in their key strings give the same getStats() and getSummary()
\* results in the state the same calls brought them to, and no entry of
\* getStats() has a key field.
C27_StatsHideKeys ==
  LET stats == getStats(statsOf(keyStats, apiKeys))
      summary == getSummary(statsOf(keyStats, apiKeys))
  IN /\ getStats(statsOf(keyStats, otherApiKeys)) = stats
     /\ getSummary(statsOf(keyStats, otherApiKeys)) = summary
     /\ \A i \in Keys : "key" \notin DOMAIN stats[i]

\* C27 witness: the entries show the usage, the state and the last error of a
\* key that was used and then failed.
C27_Witness ==
  \E i \in Keys :
    LET view == getStats(statsOf(keyStats, apiKeys))[i]
    IN /\ view.disabled
       /\ view.lastError # NoMessage
       /\ view.compressionCount = Num(1)
       /\ view.remaining = Num(MonthlyLimit - 1)

\* The sum of f over the set S of indices.
RECURSIVE SumOver(_, _)
SumOver(S, f) ==
  IF S = {} THEN 0
  ELSE LET x == CHOOSE y \in S : TRUE IN f[x] + SumOver(S \ {x}, f)

\* The keys whose usage is known.
KnownKeys == {i \in Keys : ~IsNull(keyStats[i].compressionCount)}

\* C28: getSummary() gives totalKeys = activeKeys + disabledKeys; totalUsed,
\* totalLimit and totalRemaining are null exactly when the usage of every key
\* is unknown; otherwise totalLimit is monthlyLimit times the number of keys of
\* known usage, totalUsed is the sum of the known counts and totalRemaining
\* the sum of max(0, monthlyLimit - count) over them (both NaN, as sums of JS
\* numbers are, when one of the counts is NaN).
C28_SummaryArithmetic ==
    LET sm == getSummary(statsOf(keyStats, apiKeys))
        numeric == \A i \in KnownKeys : keyStats[i].compressionCount.tag = "number"
    IN /\ sm.totalKeys = NumKeys
       /\ sm.disabledKeys = Cardinality({i \in Keys : keyStats[i].disabled})
       /\ sm.totalKeys = sm.activeKeys + sm.disabledKeys
       /\ sm.unknownKeys = NumKeys - Cardinality(KnownKeys)
       /\ IsNull(sm.totalUsed) <=> (KnownKeys = {})
       /\ IsNull(sm.totalLimit) <=> (KnownKeys = {})
       /\ IsNull(sm.totalRemaining) <=> (KnownKeys = {})
       /\ KnownKeys # {} =>
            /\ sm.totalLimit = Num(MonthlyLimit * Cardinality(KnownKeys))
            /\ sm.totalUsed =
                 IF numeric
                 THEN Num(SumOver(KnownKeys, [i \in Keys |-> keyStats[i].compressionCount.v]))
                 ELSE NaN
            /\ sm.totalRemaining =
                 IF numeric
                 THEN Num(SumOver(KnownKeys,
                        [i \in Keys |->
                           IF MonthlyLimit > keyStats[i].compressionCount.v
                           THEN MonthlyLimit - keyStats[i].compressionCount.v ELSE 0]))
                 ELSE NaN

\* C28 witness: one key is over its limit and one under it, so that the clamp
\* of the remaining quota matters.
C28_Witness ==
  \E i, j \in Keys :
    /\ keyStats[i].compressionCount = Num(MaxCount)
    /\ keyStats[j].compressionCount = Num(1)
    /\ \A k \in Keys \ {i, j} : IsNull(keyStats[k].compressionCount)
    /\ getSummary(statsOf(keyStats, apiKeys)).totalRemaining = Num(MonthlyLimit - 1)

\* C36: selectBestKey() modifies nothing but the current-selection pointer:
\* the usage count, the disabled flag, lastError and lastUpdated of every key
\* are what they were, and when the call fails the pointer is too.
C36_SelectOnlyMovesPointer ==
  [][lastCall'.op = "selectBestKey" =>
       /\ \A i \in Keys :
            /\ keyStats'[i].compressionCount = keyStats[i].compressionCount
            /\ keyStats'[i].disabled = keyStats[i].disabled
            /\ keyStats'[i].lastError = keyStats[i].lastError
            /\ keyStats'[i].lastUpdated = keyStats[i].lastUpdated
       /\ ~lastCall'.ok => currentKeyIndex' = currentKeyIndex]_vars

\* C36 witness: a selection failed, every key being disabled, on a pool whose
\* pointer an earlier selection had moved to key 1.
C36_Witness ==
  /\ lastCall.op = "selectBestKey"
  /\ ~lastCall.ok
  /\ currentKeyIndex = 1
  /\ \A i \in Keys : keyStats[i].disabled

\* C37: isKeyAvailable agrees with the selection: selectBestKey() succeeds
\* iff isKeyAvailable(i) is true for some index i, the key it returns
\* satisfies isKeyAvailable, and isKeyAvailable is false for every index out
\* of range.
C37_AvailableIffSelectable ==
  LET r == selectBestKey(keyStats)
  IN /\ r.ok <=> \E i \in IndexInputs : isKeyAvailable(keyStats, i)
     /\ r.ok => isKeyAvailable(keyStats, r.index)
     /\ \A i \in IndexInputs \ Keys : ~isKeyAvailable(keyStats, i)

\* C37 witness: one key is disabled below its limit and another holds a count
\* that is not a number; neither is available.
C37_Witness ==
  \E i, j \in Keys :
    /\ keyStats[i].disabled /\ keyStats[i].compressionCount = Num(0)
    /\ keyStats[j].compressionCount = NaN
    /\ lastCall.op = "updateStats"
    /\ ~isKeyAvailable(keyStats, i) /\ ~isKeyAvailable(keyStats, j)

\* C22: the current-selection pointer is always a valid index, and
\* getCurrentKey() is the key returned by the most recent successful
\* selectBestKey() since construction or the last reset(), key 0 when there was
\* none: the pointer is 0 after construction and after reset(), it is the
\* returned index after a successful selection, and no other call (a failed
\* selection, updateStats, markKeyError) moves it.
C22_CurrentIsLastSelection ==
  [][/\ getCurrentKey \in Keys
     /\ lastCall.op = "new" => getCurrentKey = 0
     /\ getCurrentKey' \in Keys
     /\ getCurrentKey' =
          CASE lastCall'.op = "selectBestKey" /\ lastCall'.ok -> lastCall'.ret
            [] lastCall'.op = "reset" -> 0
            [] OTHER -> getCurrentKey]_vars

\* A selection moved the pointer off key 0, key 0 being disabled, and later
\* calls on the pool left it there.
C22_Witness ==
  /\ getCurrentKey = 1
  /\ keyStats[0].disabled
  /\ lastCall.op = "markKeyError"

\* ------------------------------------------------------------------------
\* Spec: one compress() call and the server.

\* The statuses of the responses that are not ok.
ErrorStatuses == {400, 401, 404, 415, 429, 500, 503}
\* The cause codes of a failed fetch.
CauseCodes == {"ECONNREFUSED", "ETIMEDOUT", "ECONNRESET"}

\* Every failure of a source, of the transport and of the server.
AllFaults ==
  {ApiError(s) : s \in ErrorStatuses} \cup {FetchError(c) : c \in CauseCodes}
    \cup {NoLocationError, SourceError}

Init ==
  /\ keyStats = FreshKeyStats
  /\ currentKeyIndex = 0
  /\ lastCall = Call("new", TRUE, 0, NoError)
  /\ errorListener \in BOOLEAN
  /\ \E c \in {0, MonthlyLimit - 1} : serverCount = [k \in Keys |-> c]
  /\ reported = [k \in Keys |-> {}]
  /\ faults = AllFaults
  /\ bodies = BodySizes
  /\ opts \in [Tasks -> Options]
  /\ TasksIdle
  /\ NoBatch

\* The catch block of compress(): lastError = error, then handleServiceError
\* when the error has a status and a key was selected, else handleNetworkError.
\* ks and tr are the pool and the trace as the try block left them.
CatchBlock(t, error, ks, tr) ==
  LET h == IF error.status # 0 /\ keyStat[t] # NoKey
           THEN handleServiceError(ks, tr, error, keyStat[t], attempt[t], errorListener)
           ELSE handleNetworkError(ks, tr, error, attempt[t], keyStat[t], errorListener)
  IN /\ lastError' = [lastError EXCEPT ![t] = error]
     /\ keyStats' = h.ks
     /\ trace' = [trace EXCEPT ![t] = h.tr]
     /\ delayMs' = [delayMs EXCEPT ![t] = h.delay]
     /\ pc' = [pc EXCEPT ![t] = CASE h.next = "throw" -> "rejected"
                                  [] h.next = "delayThenThrow" -> "delayService"
                                  [] h.next = "delayThenContinue" -> "delayNetwork"]
     /\ result' = [result EXCEPT ![t] = IF h.next = "throw" THEN Rejected(h.thrown) ELSE @]

\* Before compress() is called, the caller marks a key as failed through the
\* compressor's keyManager.
CallerMarkKeyError ==
  /\ \A t \in Tasks : pc[t] = "idle"
  /\ \E i \in Keys, e \in KeyErrors :
       /\ ~keyStats[i].disabled
       /\ keyStats' = markKeyError(keyStats, i, e)
  /\ UNCHANGED <<currentKeyIndex, lastCall, taskVars>>

\* compress(source, options) is called: prepareSource starts.
Compress(t) ==
  /\ pc[t] = "idle"
  /\ pc' = [pc EXCEPT ![t] = "preparing"]
  /\ attempt' = [attempt EXCEPT ![t] = 0]
  /\ keyStat' = [keyStat EXCEPT ![t] = NoKey]
  /\ finalKeyStat' = [finalKeyStat EXCEPT ![t] = NoKey]
  /\ lastError' = [lastError EXCEPT ![t] = NoError]
  /\ resp' = [resp EXCEPT ![t] = NoResp]
  /\ delayMs' = [delayMs EXCEPT ![t] = 0]
  /\ selections' = [selections EXCEPT ![t] = 0]
  /\ lastProgress' = [lastProgress EXCEPT ![t] = 0]
  /\ trace' = [trace EXCEPT ![t] = <<>>]
  /\ result' = [result EXCEPT ![t] = NoResult]
  /\ UNCHANGED <<poolVars, lastCall, errorListener, batchVars, fileBar, serverCount, reported, faults, bodies, opts>>

\* prepareSource settles: 'start' is emitted, or sourceToBuffer rejected and
\* compress() rejects before its loop.
Prepare(t) ==
  /\ pc[t] = "preparing"
  /\ \E ok \in BOOLEAN :
       /\ (opts[t].isSourceUrl \/ SourceError \notin faults) => ok
       /\ IF ok
          THEN /\ trace' = [trace EXCEPT ![t] = Append(@, Ev("start", NoKey, 0))]
               /\ pc' = [pc EXCEPT ![t] = "loop"]
               /\ UNCHANGED result
          ELSE /\ pc' = [pc EXCEPT ![t] = "rejected"]
               /\ result' = [result EXCEPT ![t] = Rejected(SourceError)]
               /\ UNCHANGED trace
  /\ UNCHANGED <<poolVars, lastCall, errorListener, batchVars, fileBar, serverCount, reported, faults, bodies, opts, attempt,
                 keyStat, finalKeyStat, lastError, resp, delayMs, selections, lastProgress>>

\* The head of the for loop and the iteration up to its first await: the loop
\* test, selectBestKey(), 'compressing', and the start of uploadAndShrink; with
\* the loop over, the final throw.
LoopIter(t) ==
  /\ pc[t] = "loop"
  /\ IF attempt[t] < maxRetries
     THEN LET r == selectBestKey(keyStats) IN
          IF r.ok
          THEN /\ currentKeyIndex' = r.index
               /\ keyStat' = [keyStat EXCEPT ![t] = r.index]
               /\ selections' = [selections EXCEPT ![t] = @ + 1]
               /\ lastProgress' = [lastProgress EXCEPT ![t] =
                    IF opts[t].isSourceUrl THEN 20 ELSE 5]
               /\ trace' = [trace EXCEPT ![t] =
                    @ \o << Ev("compressing", r.index, attempt[t] + 1),
                            Ev("progress", r.index, IF opts[t].isSourceUrl THEN 20 ELSE 5),
                            Ev("shrink", r.index, 0) >>]
               /\ fileBar' = emitProgress(fileBar,
                    << IF opts[t].isSourceUrl THEN 20 ELSE 5 >>)
               /\ pc' = [pc EXCEPT ![t] = "shrinking"]
               /\ UNCHANGED <<keyStats, lastError, delayMs, result>>
          ELSE /\ CatchBlock(t, r.error, keyStats, trace[t])
               /\ UNCHANGED <<currentKeyIndex, keyStat, selections, lastProgress, fileBar>>
     ELSE /\ pc' = [pc EXCEPT ![t] = "rejected"]
          /\ result' = [result EXCEPT ![t] =
               Rejected(FailedAfterError(maxRetries, lastError[t]))]
          /\ UNCHANGED <<poolVars, keyStat, trace, lastError, delayMs, selections,
                         lastProgress, fileBar>>
  /\ UNCHANGED <<lastCall, errorListener, batchVars, serverCount, reported, faults, bodies, opts, attempt,
                 finalKeyStat, resp>>

\* The key an attempt makes its requests and records its usage with: the
\* keyStat selected at the head of the iteration.
keyOfMut(t) == getCurrentKey
keyOf(t) == keyStat[t]

\* The server, or the transport, answers the request under way: request()
\* returns the response with the count of its Compression-Count header (null
\* without the header), or throws.  POST /shrink and the resize POST are counted
\* by the server, and so is the convert POST; the plain GET is not, and
\* download() drops its count.
ServerRespond(t) ==
  /\ pc[t] \in {"shrinking", "downloading", "convShrinking", "converting"}
  /\ resp[t] = NoResp
  /\ LET k == keyOf(t)
         counted == pc[t] # "downloading" \/ opts[t].resize
     IN \/ /\ counted
           /\ serverCount[k] < MaxCount
           /\ serverCount' = [serverCount EXCEPT ![k] = @ + 1]
           /\ \E c \in {Num(serverCount[k] + 1), Null} :
                /\ resp' = [resp EXCEPT ![t] = OkResp(c)]
                /\ reported' = IF IsNull(c) THEN reported
                               ELSE [reported EXCEPT ![k] = @ \cup {c.v}]
        \/ /\ ~counted
           /\ resp' = [resp EXCEPT ![t] = OkResp(Null)]
           /\ UNCHANGED <<serverCount, reported>>
        \/ /\ \E s \in ErrorStatuses :
                /\ ApiError(s) \in faults
                /\ resp' = [resp EXCEPT ![t] = ErrResp(ApiError(s))]
           /\ UNCHANGED <<serverCount, reported>>
        \/ /\ \E c \in CauseCodes :
                /\ FetchError(c) \in faults
                /\ resp' = [resp EXCEPT ![t] = ErrResp(FetchError(c))]
           /\ UNCHANGED <<serverCount, reported>>
        \/ /\ pc[t] \in {"shrinking", "convShrinking"}
           /\ NoLocationError \in faults
           /\ resp' = [resp EXCEPT ![t] = ErrResp(NoLocationError)]
           /\ UNCHANGED <<serverCount, reported>>
  /\ UNCHANGED <<poolVars, lastCall, errorListener, batchVars, fileBar, faults, bodies, pc, opts, attempt, keyStat,
                 finalKeyStat, lastError, delayMs, selections, lastProgress, trace, result>>

\* downloadImage(): the request it sends, resize() when options.resize is given
\* and download() otherwise.
downloadRequestMut(o) == "download"
downloadRequest(o) == IF o.resize THEN "resize" ELSE "download"

\* uploadAndShrink settles.  On success: 'Upload complete' (local sources),
\* 'Image compressed', updateQuota, and downloadImage up to its request.
ShrinkDone(t) ==
  /\ pc[t] = "shrinking"
  /\ resp[t] # NoResp
  /\ IF resp[t].kind = "ok"
     THEN LET k == keyOf(t)
              tr1 == IF opts[t].isSourceUrl THEN trace[t]
                     ELSE Append(trace[t], Ev("progress", k, 35))
              tr2 == Append(tr1, Ev("progress", k, 40))
              q == updateQuota(keyStats, tr2, resp[t].count, k, DateNow)
          IN /\ keyStats' = q.ks
             /\ trace' = [trace EXCEPT ![t] =
                  q.tr \o << Ev("progress", k, IF opts[t].resize THEN 50 ELSE 60),
                             Ev(downloadRequest(opts[t]), k, 0) >>]
             /\ lastProgress' = [lastProgress EXCEPT ![t] = IF opts[t].resize THEN 50 ELSE 60]
             /\ fileBar' = emitProgress(fileBar,
                  (IF opts[t].isSourceUrl THEN << >> ELSE << 35 >>)
                    \o << 40, IF opts[t].resize THEN 50 ELSE 60 >>)
             /\ pc' = [pc EXCEPT ![t] = "downloading"]
             /\ UNCHANGED <<lastError, delayMs, result>>
     ELSE /\ CatchBlock(t, resp[t].error, keyStats, trace[t])
          /\ UNCHANGED <<lastProgress, fileBar>>
  /\ resp' = [resp EXCEPT ![t] = NoResp]
  /\ UNCHANGED <<currentKeyIndex, lastCall, errorListener, batchVars, serverCount, reported, faults, bodies, opts,
                 attempt, keyStat, finalKeyStat, selections>>

\* downloadImage settles.  On success: 'Resize complete' or 'Download
\* complete', updateQuota, getCurrentKey(), and finalizeResult up to its await
\* of arrayBuffer().
DownloadDone(t) ==
  /\ pc[t] = "downloading"
  /\ resp[t] # NoResp
  /\ IF resp[t].kind = "ok"
     THEN LET k == keyOf(t)
              tr1 == Append(trace[t], Ev("progress", k, IF opts[t].resize THEN 85 ELSE 90))
              q == updateQuota(keyStats, tr1,
                               IF opts[t].resize THEN resp[t].count ELSE Null, k, DateNow)
          IN /\ keyStats' = q.ks
             /\ trace' = [trace EXCEPT ![t] = q.tr]
             /\ finalKeyStat' = [finalKeyStat EXCEPT ![t] = getCurrentKey]
             /\ lastProgress' = [lastProgress EXCEPT ![t] = IF opts[t].resize THEN 85 ELSE 90]
             /\ fileBar' = emitProgress(fileBar, << IF opts[t].resize THEN 85 ELSE 90 >>)
             /\ pc' = [pc EXCEPT ![t] = "finalizing"]
             /\ UNCHANGED <<lastError, delayMs, result>>
     ELSE /\ CatchBlock(t, resp[t].error, keyStats, trace[t])
          /\ UNCHANGED <<finalKeyStat, lastProgress, fileBar>>
  /\ resp' = [resp EXCEPT ![t] = NoResp]
  /\ UNCHANGED <<currentKeyIndex, lastCall, errorListener, batchVars, serverCount, reported, faults, bodies, opts,
                 attempt, keyStat, selections>>

\* arrayBuffer() settles: 'complete', 'success' and the buffer is returned; or
\* reading the body failed and the catch block runs.
FinalizeDone(t) ==
  /\ pc[t] = "finalizing"
  /\ \/ \E len \in bodies :
          /\ trace' = [trace EXCEPT ![t] =
               @ \o << Ev("progress", finalKeyStat[t], 100),
                       finalizeResult(len, opts[t], finalKeyStat[t], keyStats) >>]
          /\ lastProgress' = [lastProgress EXCEPT ![t] = 100]
          /\ fileBar' = emitProgress(fileBar, << 100 >>)
          /\ pc' = [pc EXCEPT ![t] = "resolved"]
          /\ result' = [result EXCEPT ![t] = Resolved(len)]
          /\ UNCHANGED <<keyStats, lastError, delayMs>>
     \/ \E c \in CauseCodes :
          /\ FetchError(c) \in faults
          /\ CatchBlock(t, FetchError(c), keyStats, trace[t])
          /\ UNCHANGED <<lastProgress, fileBar>>
  /\ UNCHANGED <<currentKeyIndex, lastCall, errorListener, batchVars, serverCount, reported, faults, bodies, opts,
                 attempt, keyStat, finalKeyStat, resp, selections>>

\* The continuation of a loop that runs its iteration again without counting
\* it.
DelayDoneMut(t) ==
  /\ pc[t] \in {"delayService", "delayNetwork"}
  /\ IF pc[t] = "delayService"
     THEN /\ pc' = [pc EXCEPT ![t] = "rejected"]
          /\ result' = [result EXCEPT ![t] = Rejected(lastError[t])]
          /\ UNCHANGED <<attempt, keyStat, trace, selections>>
     ELSE /\ pc' = [pc EXCEPT ![t] = "loop"]
          /\ UNCHANGED attempt
          /\ selections' = [selections EXCEPT ![t] = @ - 1]
          /\ keyStat' = [keyStat EXCEPT ![t] = NoKey]
          /\ trace' = [trace EXCEPT ![t] = <<>>]
          /\ UNCHANGED result
  /\ delayMs' = [delayMs EXCEPT ![t] = 0]
  /\ UNCHANGED <<poolVars, lastCall, errorListener, batchVars, fileBar, serverCount, reported, faults, bodies, opts,
                 finalKeyStat, lastError, resp, lastProgress>>

\* delayFn settles.  In handleServiceError the error is then thrown, out of the
\* catch block and so out of compress(); in handleNetworkError true is
\* returned and the loop continues with attempt + 1.
DelayDone(t) ==
  /\ pc[t] \in {"delayService", "delayNetwork"}
  /\ IF pc[t] = "delayService"
     THEN /\ pc' = [pc EXCEPT ![t] = "rejected"]
          /\ result' = [result EXCEPT ![t] = Rejected(lastError[t])]
          /\ UNCHANGED <<attempt, keyStat, trace>>
     ELSE /\ pc' = [pc EXCEPT ![t] = "loop"]
          /\ attempt' = [attempt EXCEPT ![t] = @ + 1]
          /\ keyStat' = [keyStat EXCEPT ![t] = NoKey]
          /\ trace' = [trace EXCEPT ![t] = <<>>]
          /\ UNCHANGED result
  /\ delayMs' = [delayMs EXCEPT ![t] = 0]
  /\ UNCHANGED <<poolVars, lastCall, errorListener, batchVars, fileBar, serverCount, reported, faults, bodies, opts,
                 finalKeyStat, lastError, resp, selections, lastProgress>>

Next ==
  \/ CallerMarkKeyError
  \/ \E t \in Tasks :
    \/ Compress(t)
    \/ Prepare(t)
    \/ LoopIter(t)
    \/ ServerRespond(t)
    \/ ShrinkDone(t)
    \/ DownloadDone(t)
    \/ FinalizeDone(t)
    \/ DelayDone(t)

Spec == Init /\ [][Next]_vars

\* The steps of call t that follow from the call itself, from the server and
\* from the timer: everything but the caller's decision to call.
Step(t) ==
  \/ Prepare(t)
  \/ LoopIter(t)
  \/ ServerRespond(t)
  \/ ShrinkDone(t)
  \/ DownloadDone(t)
  \/ FinalizeDone(t)
  \/ DelayDone(t)

\* SpecLive: Spec, with every request and every delay completing and every
\* continuation that is ready run by the event loop.
SpecLive == Init /\ [][Next]_vars /\ \A t \in Tasks : WF_vars(Step(t))

\* ------------------------------------------------------------------------
\* SpecConc: the compress() calls that processFilesWithConcurrency runs at the
\* same time on its shared compressor, interleaved at their awaits.

\* The calls in flight at a concurrency limit of two.
ConcTasks == {1, 2}

\* The failures met in the concurrent runs: a key over its rate limit and a
\* server error.
ConcFaults == {ApiError(429), ApiError(500)}

ConcInit ==
  /\ keyStats = FreshKeyStats
  /\ currentKeyIndex = 0
  /\ lastCall = Call("new", TRUE, 0, NoError)
  /\ errorListener \in BOOLEAN
  /\ serverCount = [k \in Keys |-> 0]
  /\ reported = [k \in Keys |-> {}]
  /\ faults = ConcFaults
  /\ bodies = BodySizes
  /\ \E o \in Options :
       /\ ~o.isSourceUrl
       /\ opts = [t \in ConcTasks |-> o]
  /\ IdleTasks(ConcTasks)
  /\ NoBatch

\* resetCounts(), called by the owner of the compressor while none of its
\* compress() calls is in flight (at the start of a month).
ResetCounts ==
  /\ \A t \in DOMAIN pc : pc[t] \in {"idle", "resolved", "rejected"}
  /\ keyStats # FreshKeyStats
  /\ keyStats' = reset(keyStats)
  /\ currentKeyIndex' = 0
  /\ reported' = [k \in Keys |-> {}]
  /\ UNCHANGED <<lastCall, errorListener, batchVars, fileBar, serverCount, faults, bodies, pc, opts, attempt,
                 keyStat, finalKeyStat, lastError, resp, delayMs, selections,
                 lastProgress, trace, result>>

ConcNext ==
  \/ ResetCounts
  \/ \E t \in ConcTasks :
    \/ Compress(t)
    \/ Prepare(t)
    \/ LoopIter(t)
    \/ ServerRespond(t)
    \/ ShrinkDone(t)
    \/ DownloadDone(t)
    \/ FinalizeDone(t)
    \/ DelayDone(t)

SpecConc == ConcInit /\ [][ConcNext]_vars

\* ------------------------------------------------------------------------
\* SpecFile: one local file run through processSingleConvert: compress(), then
\* a second upload and the convert request made through the service directly.

\* The lengths of the file and of the bodies the server sends.
FileSizes == 1 .. 3

\* The failure met in these runs: a server error.
FileFaults == {ApiError(500)}

FileInit ==
  /\ keyStats = FreshKeyStats
  /\ currentKeyIndex = 0
  /\ lastCall = Call("new", TRUE, 0, NoError)
  /\ errorListener \in BOOLEAN
  /\ serverCount = [k \in Keys |-> 0]
  /\ reported = [k \in Keys |-> {}]
  /\ faults = FileFaults
  /\ bodies = FileSizes
  /\ \E o \in OptionsOf(FileSizes) :
       /\ ~o.resize /\ ~o.isSourceUrl
       /\ opts = [t \in Tasks |-> o]
  /\ TasksIdle
  /\ NoBatch

\* compress() returned its buffer: keyStat = keyManager.getCurrentKey(), and
\* shrink(compressedBuffer, keyStat.key) is requested.
ConvertShrink(t) ==
  /\ pc[t] = "resolved"
  /\ keyStat' = [keyStat EXCEPT ![t] = getCurrentKey]
  /\ pc' = [pc EXCEPT ![t] = "convShrinking"]
  /\ UNCHANGED <<poolVars, lastCall, errorListener, batchVars, fileBar, serverCount, reported, faults, bodies,
                 opts, attempt, finalKeyStat, lastError, resp, delayMs, selections,
                 lastProgress, trace, result>>

\* shrink() settles: convert(shrinkResult.outputUrl, ...) is requested, or the
\* catch block counts the file as failed.  shrinkResult.compressionCount is
\* not read.
ConvertShrinkDone(t) ==
  /\ pc[t] = "convShrinking"
  /\ resp[t] # NoResp
  /\ pc' = [pc EXCEPT ![t] = IF resp[t].kind = "ok" THEN "converting" ELSE "convertFailed"]
  /\ resp' = [resp EXCEPT ![t] = NoResp]
  /\ UNCHANGED <<poolVars, lastCall, errorListener, batchVars, fileBar, serverCount, reported, faults, bodies,
                 opts, attempt, keyStat, finalKeyStat, lastError, delayMs, selections,
                 lastProgress, trace, result>>

\* convert() settles: the converted file is written and the file reported as
\* done, or the catch block counts it as failed.  convertResult.compressionCount
\* is not read.
ConvertDone(t) ==
  /\ pc[t] = "converting"
  /\ resp[t] # NoResp
  /\ pc' = [pc EXCEPT ![t] = IF resp[t].kind = "ok" THEN "converted" ELSE "convertFailed"]
  /\ resp' = [resp EXCEPT ![t] = NoResp]
  /\ UNCHANGED <<poolVars, lastCall, errorListener, batchVars, fileBar, serverCount, reported, faults, bodies,
                 opts, attempt, keyStat, finalKeyStat, lastError, delayMs, selections,
                 lastProgress, trace, result>>

FileNext ==
  \E t \in Tasks :
    \/ Compress(t)
    \/ Prepare(t)
    \/ LoopIter(t)
    \/ ServerRespond(t)
    \/ ShrinkDone(t)
    \/ DownloadDone(t)
    \/ FinalizeDone(t)
    \/ DelayDone(t)
    \/ ConvertShrink(t)
    \/ ConvertShrinkDone(t)
    \/ ConvertDone(t)

SpecFile == FileInit /\ [][FileNext]_vars

\* ------------------------------------------------------------------------
\* SpecBatch: compressCommand and processFilesWithConcurrency
\* (bin/lib/display.mjs, bin/lib/processors.mjs) run a queue of local files
\* through processSingleFile on one shared compressor.  Nothing registers a
\* listener for 'error' on it, so that none of its calls reaches a delay.

\* The queue: filesToProcess, one compress() call per file.
queue == << 1, 2 >>
Files == {queue[i] : i \in 1 .. Len(queue)}

\* writeFileSync(outputPath, compressedBuffer) throws.
WriteError == MkError("write", 0, NoCode)

\* The failures met in a batch: a server error and an output that cannot be
\* written.
BatchFaults == {ApiError(500), WriteError}

\* options.concurrent: absent, or what parseInt made of the argument of -n.
Requests == {Null, NaN, Num(0), Num(0 - 1), Num(2), Num(11)}

MathMin(a, b) == IF a < b THEN a ELSE b
MathMax(a, b) == IF a > b THEN a ELSE b

\* Math.max(1, Math.min(options.concurrent || 3, 10)): undefined, NaN and 0
\* are falsy.
concurrentOf(c) ==
  MathMax(1, MathMin(IF c.tag = "number" /\ c.v # 0 THEN c.v ELSE 3, 10))

\* filesToProcess.length > 1
useMultiBar == Len(queue) > 1

BatchInit ==
  /\ keyStats = FreshKeyStats
  /\ currentKeyIndex = 0
  /\ lastCall = Call("new", TRUE, 0, NoError)
  /\ errorListener = FALSE
  /\ serverCount = [k \in Keys |-> 0]
  /\ reported = [k \in Keys |-> {}]
  /\ faults = BatchFaults
  /\ bodies = BodySizes
  /\ \E o \in Options :
       /\ ~o.resize /\ ~o.isSourceUrl
       /\ opts = [f \in Files |-> o]
  /\ IdleTasks(Files)
  /\ \E c \in Requests :
       /\ optionsConcurrent = c
       /\ concurrent = concurrentOf(c)

\* The for loop of processQueue from the head of the iteration for queue[i],
\* run to its next await: Promise.race when activePromises is full, and
\* Promise.all when the queue is exhausted.  Each iteration in between calls
\* processSingleFile and pushes its promise.
RECURSIVE forLoop(_, _)
forLoop(i, active) ==
  IF i > Len(queue) THEN [index |-> i, active |-> active, pc |-> "all"]
  ELSE IF Len(active) >= concurrent THEN [index |-> i, active |-> active, pc |-> "race"]
  ELSE forLoop(i + 1, Append(active, queue[i]))

\* activePromises.findIndex(p => p === result.promise) and splice(index, 1).
spliceOutMut(active, f) == active
spliceOut(active, f) == SelectSeq(active, LAMBDA g : g # f)

\* The loop resumed after its await of Promise.race, which file f won:
\* activePromises loses f, queue[i] is started, and the loop goes on.
afterRace(i, active, f) ==
  forLoop(i + 1, Append(spliceOut(active, f), queue[i]))

\* The files of active that were not in before.
Pushed(before, active) ==
  {active[j] : j \in 1 .. Len(active)} \ {before[j] : j \in 1 .. Len(before)}

\* processSingleFile is called for each file of S and runs to its await of
\* compress(): multiBar.create and on('progress', ...) when there is a
\* multiBar, then compress(), which runs to its await of prepareSource.
\* rs is fileResult with the promises settled so far.
StartFiles(S, rs, bars) ==
  /\ pc' = [f \in DOMAIN pc |-> IF f \in S THEN "preparing" ELSE pc[f]]
  /\ fileResult' = [f \in DOMAIN rs |-> IF f \in S THEN "pending" ELSE rs[f]]
  /\ started' = [f \in DOMAIN started |-> IF f \in S THEN started[f] + 1 ELSE started[f]]
  /\ fileBar' = [f \in DOMAIN bars |->
       IF f \in S /\ useMultiBar
       THEN [registered |-> TRUE, lastProgress |-> 0, value |-> 0]
       ELSE bars[f]]

\* processFilesWithConcurrency is called: processQueue runs to its first await.
ProcessQueue ==
  /\ queuePc = "idle"
  /\ LET r == forLoop(1, << >>) IN
       /\ StartFiles(Pushed(<< >>, r.active), fileResult, fileBar)
       /\ activePromises' = r.active
       /\ queueIndex' = r.index
       /\ queuePc' = r.pc
  /\ UNCHANGED <<poolVars, lastCall, errorListener, optionsConcurrent, concurrent,
                 completedResults, results, serverCount, reported, faults, bodies, opts,
                 attempt, keyStat, finalKeyStat, lastError, resp, delayMs, selections,
                 lastProgress, trace, result>>

\* The value a settled file's promise resolved with.
valueOf(f, rs) == [file |-> f, success |-> rs[f] = "success"]

\* fileBar.update(100, ...)
barDone(bars, f) ==
  IF bars[f].registered THEN [bars EXCEPT ![f].value = 100] ELSE bars

\* compress() of file f settled and processSingleFile runs to its end: the
\* output is written and the file counted as a success, or the catch block
\* counts it as failed; the bar is set to 100 and the promise resolves.  Then
\* processQueue resumes when it was waiting for this: after Promise.race with
\* the result of f, after Promise.all when f was the last one pending.
FileDone(f) ==
  /\ pc[f] \in {"resolved", "rejected"}
  /\ fileResult[f] = "pending"
  /\ \E ok \in BOOLEAN :
       /\ ok => pc[f] = "resolved"
       /\ (pc[f] = "resolved" /\ WriteError \notin faults) => ok
       /\ LET rs == [fileResult EXCEPT ![f] = IF ok THEN "success" ELSE "failed"]
              bars == barDone(fileBar, f)
          IN /\ results' = IF ok THEN [results EXCEPT !.success = @ + 1]
                                 ELSE [results EXCEPT !.failed = @ + 1]
             /\ IF queuePc = "race"
                THEN LET r == afterRace(queueIndex, activePromises, f) IN
                     /\ completedResults' = Append(completedResults, valueOf(f, rs))
                     /\ StartFiles(Pushed(activePromises, r.active), rs, bars)
                     /\ activePromises' = r.active
                     /\ queueIndex' = r.index
                     /\ queuePc' = r.pc
                ELSE /\ fileResult' = rs
                     /\ fileBar' = bars
                     /\ IF \A j \in 1 .. Len(activePromises) : rs[activePromises[j]] # "pending"
                        THEN /\ completedResults' = completedResults \o
                                  [j \in 1 .. Len(activePromises) |->
                                     valueOf(activePromises[j], rs)]
                             /\ queuePc' = "done"
                        ELSE UNCHANGED <<completedResults, queuePc>>
                     /\ UNCHANGED <<pc, started, activePromises, queueIndex>>
  /\ UNCHANGED <<poolVars, lastCall, errorListener, optionsConcurrent, concurrent,
                 serverCount, reported, faults, bodies, opts, attempt, keyStat,
                 finalKeyStat, lastError, resp, delayMs, selections, lastProgress,
                 trace, result>>

BatchNext ==
  \/ ProcessQueue
  \/ \E f \in Files :
    \/ Prepare(f)
    \/ LoopIter(f)
    \/ ServerRespond(f)
    \/ ShrinkDone(f)
    \/ DownloadDone(f)
    \/ FinalizeDone(f)
    \/ FileDone(f)

SpecBatch == BatchInit /\ [][BatchNext]_vars

\* ------------------------------------------------------------------------
\* Claims about a batch (SpecBatch)

\* The file tasks started and not yet finished.
InFlight == {f \in DOMAIN fileResult : fileResult[f] = "pending"}

\* The requested value clamped to 1..10, 3 when no number was requested.
ClampedRequest(c) ==
  IF c.tag = "number" THEN MathMax(1, MathMin(c.v, 10)) ELSE 3

\* C32: at no time are more file tasks started and not yet finished than the
\* requested concurrency clamped to 1..10 (3 when none is requested).
C32_InFlightWithinClampedRequest ==
  Cardinality(InFlight) <= ClampedRequest(optionsConcurrent)

\* The results collected for file f.
ResultsOf(f) == {j \in 1 .. Len(completedResults) : completedResults[j].file = f}

\* C33: every queued file is started exactly once and has exactly one result
\* collected, whatever became of the other files: no file is started twice or
\* collected twice, processQueue never waits with nothing in flight, and when
\* it returns every file was started, has its one result, and success + failed
\* is the number of queued files.
C33_EveryFileOnce ==
  /\ \A f \in Files :
       /\ started[f] <= 1
       /\ Cardinality(ResultsOf(f)) <= 1
       /\ \A j \in ResultsOf(f) :
            completedResults[j].success = (fileResult[f] = "success")
  /\ queuePc \in {"race", "all"} => InFlight # {}
  /\ queuePc = "done" =>
       /\ \A f \in Files :
            /\ started[f] = 1
            /\ fileResult[f] \in {"success", "failed"}
            /\ Cardinality(ResultsOf(f)) = 1
       /\ Len(completedResults) = Len(queue)
       /\ results.success = Cardinality({f \in Files : fileResult[f] = "success"})
       /\ results.failed = Cardinality({f \in Files : fileResult[f] = "failed"})
       /\ results.success + results.failed = Len(queue)

\* C33 witness: a batch that returned after its first file failed while the
\* second one waited for it, and in which the second one succeeded.
C33_Witness ==
  /\ queuePc = "done"
  /\ concurrent < Len(queue)
  /\ fileResult[queue[1]] = "failed"
  /\ fileResult[queue[2]] = "success"
  /\ results = [success |-> 1, failed |-> 1]

\* C34: the progress bar of a file moves only in steps of that file's own
\* task: at the events its own compress() call emits and when its own
\* processSingleFile finishes, never at the events of another file's task.
C34_BarFollowsOwnTask ==
  [][\A f \in Files :
       fileBar'[f].value # fileBar[f].value =>
         \/ trace'[f] # trace[f]
         \/ fileResult'[f] # fileResult[f]]_vars

\* ------------------------------------------------------------------------
\* Claims about one file of a batch (SpecFile)

\* The largest of a non-empty set of counts.
MaxOf(S) == CHOOSE x \in S : \A y \in S : y <= x

\* The pool's record of key k is the last count the server reported for it.
RecordedLatest(k) ==
  reported[k] # {} => keyStats[k].compressionCount = Num(MaxOf(reported[k]))

\* C21: when a task reports completion (compress() resolved, or the converted
\* file written), every usage count that the server sent with a successful
\* upload, resize or convert response of the task is recorded in the pool for
\* the key that made the request: with one task, the pool holds the last
\* count reported for each key.
C21_UsageRecordedBeforeCompletion ==
  \A t \in Tasks : pc[t] \in {"resolved", "converted"} => \A k \in Keys : RecordedLatest(k)

\* ------------------------------------------------------------------------
\* Claims about concurrent compress() calls (SpecConc)

\* The call has selected key k and has not yet recorded a usage update for it:
\* it is between selectBestKey() and the updateQuota that follows the upload.
SelectedUnrecorded(t, k) == pc[t] = "shrinking" /\ keyStat[t] = k

\* C11: selection through usage update is a critical section: two concurrent
\* calls never both hold the same selected key before one of them has recorded
\* its usage update for that key.
C11_SelectionIsCriticalSection ==
  \A t1 \in ConcTasks, t2 \in ConcTasks, k \in Keys :
    (t1 # t2) => ~(SelectedUnrecorded(t1, k) /\ SelectedUnrecorded(t2, k))

\* C12: after any interleaving of concurrent calls, the usage count recorded
\* for a key is unknown or one of the values the server reported, since the
\* last reset, in answer to a request made with that key.
C12_CountsAreServerReported ==
  \A k \in Keys :
    \/ keyStats[k].compressionCount = Null
    \/ /\ keyStats[k].compressionCount.tag = "number"
       /\ keyStats[k].compressionCount.v \in reported[k]

\* C12 witness: two calls run on different keys, both keys have a recorded
\* count, and the pool's current key is not the key of one of the calls that
\* recorded.
C12_Witness ==
  \E t1 \in ConcTasks, t2 \in ConcTasks :
    /\ pc[t1] \in {"downloading", "finalizing", "resolved"}
    /\ pc[t2] \in {"downloading", "finalizing", "resolved"}
    /\ keyStat[t1] # keyStat[t2]
    /\ keyStat[t1] # currentKeyIndex
    /\ keyStats[keyStat[t1]].compressionCount # Null
    /\ keyStats[keyStat[t2]].compressionCount # Null
    /\ keyStats[keyStat[t1]].compressionCount # keyStats[keyStat[t2]].compressionCount

\* C29: an attempt whose key is disabled while it is in flight (by a
\* concurrent call on the pool, or by its own upload reaching the limit) is
\* not aborted: while a request of it is under way, whatever happens to the
\* pool, the attempt stays where it is with the key it selected; it moves
\* only on the answer to its request, which the server counts for that key:
\* to its next request made with the same key and then to the end when the
\* answer is ok, and into the catch block with the error of the answer
\* otherwise.
C29_NoPreemption ==
  [][\A t \in ConcTasks :
       /\ pc[t] \in {"shrinking", "downloading"} =>
            IF pc'[t] = pc[t]
            THEN /\ keyStat'[t] = keyStat[t] /\ trace'[t] = trace[t]
                 /\ (resp[t] = NoResp /\ resp'[t] # NoResp) =>
                      \A k \in Keys \ {keyStat[t]} : serverCount'[k] = serverCount[k]
            ELSE /\ resp[t] # NoResp
                 /\ \A i \in (Len(trace[t]) + 1) .. Len(trace'[t]) :
                      trace'[t][i].key = keyStat[t]
                 /\ resp[t].kind = "ok" =>
                      /\ keyStat'[t] = keyStat[t]
                      /\ pc'[t] = IF pc[t] = "shrinking" THEN "downloading" ELSE "finalizing"
                      /\ pc[t] = "shrinking" =>
                           trace'[t][Len(trace'[t])] =
                             Ev(IF opts[t].resize THEN "resize" ELSE "download", keyStat[t], 0)
                 /\ resp[t].kind = "error" =>
                      /\ lastError'[t] = resp[t].error
                      /\ pc'[t] \in {"rejected", "delayService", "delayNetwork"}
       /\ pc[t] = "finalizing" => pc'[t] \in {"finalizing", "resolved"}]_vars

\* C29 witness: a call has its download or resize request under way with a key
\* that is disabled, and which was not when the call selected it.
C29_Witness ==
  \E t \in ConcTasks :
    /\ pc[t] = "downloading"
    /\ resp[t] = NoResp
    /\ keyStats[keyStat[t]].disabled

\* C30: the 'success' event of a call reports the index and the usage of the
\* key that served the call's successful attempt, also when other calls on the
\* pool select a key between this call's selection and its finalization.
\* When a call emits 'success', the event carries the index of the key the
\* attempt selected and the usage the pool holds for that key.
C30_SuccessReportsServingKey ==
  [][\A t \in ConcTasks :
       (pc[t] = "finalizing" /\ pc'[t] = "resolved") =>
         LET success == trace'[t][Len(trace'[t])]
         IN /\ success.ev = "success"
            /\ success.key = keyStat[t]
            /\ success.compressionCount = keyStats[keyStat[t]].compressionCount]_vars

\* C13: between two resets, the recorded usage count of a key never decreases
\* once it is known, whatever the order in which the concurrent calls process
\* their responses (the server's counter of each key only grows).
C13_CountsNeverDecrease ==
  [][ResetCounts \/
     \A k \in Keys :
       (keyStats[k].compressionCount.tag = "number") =>
         /\ keyStats'[k].compressionCount.tag = "number"
         /\ keyStats'[k].compressionCount.v >= keyStats[k].compressionCount.v]_vars

\* ------------------------------------------------------------------------
\* Claims about compress() (Spec)

HasEv(tr, ev) == \E i \in 1 .. Len(tr) : tr[i].ev = ev

\* The call has settled.
Settled(t) == pc[t] \in {"resolved", "rejected"}

\* This step runs the catch block of compress(): the error caught is
\* lastError'[t].
CaughtStep(t) ==
  /\ pc[t] \in {"loop", "shrinking", "downloading", "finalizing"}
  /\ pc'[t] \in {"rejected", "delayService", "delayNetwork"}
  /\ ~(pc[t] = "loop" /\ attempt[t] >= maxRetries)

\* This step handles the failure of a request (upload, resize or download)
\* that the server answered with a status in S.
RequestFailedWith(t, S) ==
  /\ CaughtStep(t)
  /\ pc[t] \in {"shrinking", "downloading"}
  /\ lastError'[t].status \in S

\* The status a rejection carries: its own, or for the error thrown by an
\* unheard 'error' event the one in its context.
CarriedStatus(e) == IF e.kind = "unhandled" THEN e.innerStatus ELSE e.status

\* C3: when a request of attempt k fails with 401 or 429 and k+1 is less than
\* the pool size, the key used is disabled and compress() goes on, without a
\* delay, to attempt k+1 (whose selection then skips the disabled key).
C3_AccountErrorRotates ==
  [][\A t \in Tasks :
       (RequestFailedWith(t, {401, 429}) /\ attempt[t] + 1 < NumKeys) =>
         /\ keyStats'[keyStat[t]].disabled
         /\ pc'[t] = "loop"
         /\ attempt'[t] = attempt[t] + 1
         /\ delayMs'[t] = 0]_vars

\* C4: when a request of attempt k fails with a 5xx status and k+1 is less than
\* the pool size, compress() waits a nonzero delay, disables no key, and then
\* performs attempt k+1.
C4_ServerErrorRetries ==
  [][\A t \in Tasks :
       /\ (RequestFailedWith(t, 500 .. 599) /\ attempt[t] + 1 < NumKeys) =>
            /\ \A i \in Keys : keyStats'[i].disabled = keyStats[i].disabled
            /\ pc'[t] \in {"delayService", "delayNetwork"}
            /\ delayMs'[t] > 0
       /\ (pc[t] \in {"delayService", "delayNetwork"} /\ lastError[t].status >= 500
             /\ pc'[t] # pc[t]) =>
            /\ pc'[t] = "loop"
            /\ attempt'[t] = attempt[t] + 1]_vars

\* C5: compress() rejects because of a 401 or 429 of one key only when no
\* usable key remains; while another key is eligible the failure is absorbed
\* into the pool and the call goes on.
C5_AccountErrorsAbsorbed ==
  \A t \in Tasks :
    (pc[t] = "rejected" /\ lastError[t].status \in {401, 429}) =>
      \A i \in Keys : ~Eligible(i)

\* C6: one compress() call makes at most as many attempts (selections, each
\* announced by one 'compressing' event) as the pool has keys.
C6_AttemptsCappedAtPoolSize ==
  \A t \in Tasks : selections[t] <= NumKeys

\* C6 witness: a call that failed after using every one of its attempts.
C6_Witness ==
  \E t \in Tasks : pc[t] = "rejected" /\ selections[t] = NumKeys /\ NumKeys > 1

\* C7: a status-less error whose cause code is ECONNREFUSED or ETIMEDOUT, caught
\* in attempt k < N - 1, makes compress() wait 1000 * (k + 1) ms and then run
\* attempt k+1 from the selection on; any other status-less error, or a
\* retryable one in the last attempt, makes compress() reject with that error.
C7_NetworkErrorRetries ==
  [][\A t \in Tasks :
       /\ (CaughtStep(t) /\ lastError'[t].status = 0
             /\ lastError'[t].code \in {"ECONNREFUSED", "ETIMEDOUT"}
             /\ attempt[t] < NumKeys - 1) =>
            /\ pc'[t] = "delayNetwork"
            /\ delayMs'[t] = 1000 * (attempt[t] + 1)
       /\ (pc[t] = "delayNetwork" /\ pc'[t] # pc[t]) =>
            /\ pc'[t] = "loop"
            /\ attempt'[t] = attempt[t] + 1
            /\ keyStat'[t] = NoKey
       /\ (CaughtStep(t) /\ lastError'[t].status = 0
             /\ ~(lastError'[t].code \in {"ECONNREFUSED", "ETIMEDOUT"}
                    /\ attempt[t] < NumKeys - 1)) =>
            /\ pc'[t] = "rejected"
            /\ result'[t] = Rejected(lastError'[t])]_vars

C9_SelectionFailureIsTerminal ==
  [][\A t \in Tasks :
       /\ (pc[t] = "loop" /\ attempt[t] < NumKeys /\ pc'[t] # pc[t]
             /\ \A i \in Keys : ~Eligible(i)) =>
            /\ pc'[t] = "rejected"
            /\ result'[t].state = "rejected"
            /\ delayMs'[t] = 0
            /\ ~HasEv(trace'[t], "delay")
            /\ ~HasEv(trace'[t], "shrink")
            /\ selections'[t] = selections[t]
            /\ keyStat'[t] = NoKey
       /\ (pc[t] = "rejected" /\ lastError[t].kind \in {"allDisabled", "allAtLimit"}) =>
            UNCHANGED <<pc, attempt, selections, trace>>]_vars

\* C9 witness: the selection failed in the second attempt, after the first
\* attempt's key reached its limit and its download was refused.
C9_Witness ==
  \E t \in Tasks :
    /\ pc[t] = "rejected" /\ lastError[t].kind = "allDisabled"
    /\ attempt[t] = 1 /\ selections[t] = 1
    /\ errorListener

\* C10: when compress() gives up because its attempts are used up, it rejects
\* with the 'compression failed after N attempts' error, which carries the
\* message of the last underlying error.
C10_ExhaustionWraps ==
  \A t \in Tasks :
    (/\ pc[t] = "rejected"
     /\ selections[t] = NumKeys
     /\ isServerError(lastError[t]) \/ shouldRetryOnNetworkError(lastError[t])) =>
      /\ result[t].error.kind = "failedAfter"
      /\ result[t].error.tries = NumKeys
      /\ result[t].error.inner = lastError[t].kind

\* C17: during compress(), the disabled flag of a key is set only by a 401 or
\* 429 answer to a request made with that key, or by a usage count at or above
\* monthlyLimit that the server reported for it; handling a 5xx answer, any
\* other status or a network error disables no key.
C17_OnlyAccountErrorsDisable ==
  [][\A t \in Tasks :
       /\ (pc[t] # "idle") =>
            \A i \in Keys :
              (~keyStats[i].disabled /\ keyStats'[i].disabled) =>
                /\ keyStat[t] = i
                /\ \/ RequestFailedWith(t, {401, 429})
                   \/ /\ pc[t] \in {"shrinking", "downloading"}
                      /\ resp[t].kind = "ok"
                      /\ resp[t].count.tag = "number"
                      /\ resp[t].count.v >= MonthlyLimit
       /\ (CaughtStep(t) /\ lastError'[t].status \notin {401, 429}) =>
            \A i \in Keys : keyStats'[i].disabled = keyStats[i].disabled]_vars

\* C17 witness: a call failed on a 503 answer to its download, after its upload
\* was counted below the limit, and its key is still enabled.
C17_Witness ==
  \E t \in Tasks :
    /\ pc[t] \in {"rejected", "delayService"}
    /\ lastError[t].status = 503
    /\ HasEv(trace[t], "quotaUpdate")
    /\ ~keyStats[keyStat[t]].disabled

\* The positions of the entries ev of a trace, and of its 'progress' entries
\* of value n.
Idx(tr, ev) == {i \in 1 .. Len(tr) : tr[i].ev = ev}
IdxP(tr, n) == {i \in 1 .. Len(tr) : tr[i].ev = "progress" /\ tr[i].n = n}

\* C23: within an attempt of compress() the steps come in the order select,
\* upload, record the upload's usage, then exactly one request, the resize
\* when options.resize is given and the plain download otherwise, record its
\* usage, finalize.  No resize or download is requested before the upload of
\* the attempt succeeded, every request uses the selected key, 'success' is
\* emitted at most once, after the body was retrieved, and is the last thing
\* the call does.
C23_StepsInOrder ==
  \A t \in Tasks :
    LET tr == trace[t]
        sel == Idx(tr, "compressing")
        up == Idx(tr, "shrink")
        done == IdxP(tr, 40)
        req == Idx(tr, "resize") \cup Idx(tr, "download")
        got == IdxP(tr, 85) \cup IdxP(tr, 90)
        suc == Idx(tr, "success")
    IN /\ Cardinality(sel) <= 1 /\ Cardinality(up) <= 1
       /\ Cardinality(req) <= 1 /\ Cardinality(suc) <= 1
       /\ \A i \in up : tr[i].key = keyStat[t] /\ \E j \in sel : j < i
       /\ \A i \in done : \E j \in up : j < i
       /\ \A i \in req :
            /\ tr[i].key = keyStat[t]
            /\ tr[i].ev = IF opts[t].resize THEN "resize" ELSE "download"
            /\ \E j \in done : j < i
       /\ \A i \in got : \E j \in req : j < i
       /\ \A i \in Idx(tr, "quotaUpdate") :
            /\ tr[i].key = keyStat[t]
            /\ \E j \in done : j < i
            /\ \A r \in req : i < r \/ (opts[t].resize /\ \E j \in got : r < j /\ j < i)
       /\ \A i \in suc :
            /\ i = Len(tr)
            /\ pc[t] = "resolved"
            /\ \E j \in got : j < i
            /\ \A q \in Idx(tr, "quotaUpdate") : q < i
       /\ pc[t] = "resolved" => suc # {}

\* A call with a resize resolved, with the usage of its upload and of its
\* resize both recorded.
C23_Witness ==
  \E t \in Tasks :
    /\ pc[t] = "resolved"
    /\ opts[t].resize
    /\ Idx(trace[t], "resize") # {}
    /\ Cardinality(Idx(trace[t], "quotaUpdate")) = 2

\* The 'progress' values of a trace, in percent, in the order of emission.
ProgressOf(tr) == [i \in 1 .. Len(SelectSeq(tr, LAMBDA e : e.ev = "progress")) |->
                    SelectSeq(tr, LAMBDA e : e.ev = "progress")[i].n]

\* C24: within one compress() call the values of the successive 'progress'
\* events lie in [0, 1] (here 0..100 percent) and never decrease, over all the
\* stages executed and over all the attempts of the call: in every step of a
\* running call, the values it has emitted in the attempt are in order and
\* the last value emitted is not below the last one emitted before the step.
C24_ProgressMonotone ==
  [][\A t \in Tasks :
       pc[t] # "idle" =>
         /\ lastProgress'[t] \in 0 .. 100
         /\ lastProgress'[t] >= lastProgress[t]
         /\ \A i, j \in DOMAIN ProgressOf(trace'[t]) :
              i <= j => ProgressOf(trace'[t])[i] <= ProgressOf(trace'[t])[j]]_vars

\* C25: for a successful compress() of a source whose original size is known,
\* the 'success' event reports compressedSize equal to the length of the
\* returned buffer and savedBytes equal to originalSize - compressedSize
\* clamped at 0: savedBytes is never negative, also when the compressed data
\* is longer than the original.
C25_SavedBytesClamped ==
  \A t \in Tasks :
    (pc[t] = "resolved" /\ originalSizeOf(opts[t]) # 0) =>
      \A i \in Idx(trace[t], "success") :
        /\ trace[t][i].compressedSize = result[t].size
        /\ trace[t][i].savedBytes =
             IF originalSizeOf(opts[t]) > result[t].size
             THEN originalSizeOf(opts[t]) - result[t].size ELSE 0
        /\ trace[t][i].savedBytes >= 0

\* The statuses the classification is checked for: those the server sends in
\* the runs and others around the borders of the classes.
ClassifiedStatuses ==
  ErrorStatuses \cup {100, 200, 301, 399, 402, 403, 414, 416, 428, 430, 499, 501, 502, 599}

\* The category the classification is claimed to give for a status, 0 being
\* a missing status.
ClaimedType(status) ==
  CASE status \in {401, 429} -> "account"
    [] status \in {400, 415} -> "client"
    [] status >= 500 -> "server"
    [] OTHER -> "unknown"

\* C26: the classification is a total function of the HTTP status: 'account'
\* iff the status is 401 or 429, 'client' iff it is 400 or 415, 'server' iff it
\* is 500 or more, 'unknown' for every other status and for an error without
\* status; and shouldMarkKeyError is true exactly for the category 'account'.
\* Checked for the error each call last caught and for every error of the
\* statuses above.
C26_ClassificationTotal ==
  \A e \in {lastError[t] : t \in Tasks} \cup {ApiError(st) : st \in ClassifiedStatuses}
           \cup {FetchError(c) : c \in CauseCodes} \cup {NoLocationError, SourceError} :
    /\ getErrorType(e) = ClaimedType(e.status)
    /\ shouldMarkKeyError(e) <=> (getErrorType(e) = "account")

\* A call caught a 404 answer, which falls in no class but 'unknown', and
\* emitted 'error' for it.
C26_Witness ==
  \E t \in Tasks :
    /\ pc[t] \in {"rejected", "delayService", "delayNetwork"}
    /\ lastError[t].status = 404
    /\ getErrorType(lastError[t]) = "unknown"
    /\ HasEv(trace[t], "error")

\* What the catch block of call t does with the error it caught when a
\* listener for 'error' is registered.
WithListener(t, error) ==
  IF error.status # 0 /\ keyStat[t] # NoKey
  THEN handleServiceError(keyStats, trace[t], error, keyStat[t], attempt[t], TRUE)
  ELSE handleNetworkError(keyStats, trace[t], error, attempt[t], keyStat[t], TRUE)

\* C31: the control flow and the outcome of compress() do not depend on
\* whether the caller registered a listener for 'error': whenever the catch
\* block runs, the delay taken, the continuation (retry, or rejection) and
\* the error thrown are those of a call whose compressor has such a listener.
C31_ListenerIsObservationalOnly ==
  [][\A t \in Tasks :
       CaughtStep(t) =>
         LET h == WithListener(t, lastError'[t])
         IN /\ delayMs'[t] = h.delay
            /\ pc'[t] = CASE h.next = "throw" -> "rejected"
                           [] h.next = "delayThenThrow" -> "delayService"
                           [] h.next = "delayThenContinue" -> "delayNetwork"
            /\ h.next = "throw" => result'[t] = Rejected(h.thrown)]_vars

\* C35: every compress() call eventually resolves or rejects, provided every
\* request and every delay completes: no pattern of failures keeps the retry
\* loop running for ever.
C35_CompressTerminates ==
  \A t \in Tasks : (pc[t] = "preparing") ~> (pc[t] \in {"resolved", "rejected"})

\* C35 witness: a call settled after it went through a retry.
C35_Witness ==
  \E t \in Tasks :
    /\ pc[t] \in {"resolved", "rejected"}
    /\ attempt[t] >= 1
    /\ selections[t] >= 2

====
